---- MODULE Spec2Model ----
(***************************************************************************)
(* TradingEnv (src/src/environment/trading_env.py): the episodic trading   *)
(* simulation, as a state machine of its three entry points __init__,      *)
(* reset and step.                                                         *)
(*                                                                         *)
(* Units.  The code works in floating point; every amount the model meets  *)
(* is an exact multiple of the units below, so integers carry them.        *)
(*   price : points, 1 point = 0.00001 (100000 points = 1.0)               *)
(*   money : 1/UnitsPerUSD of a dollar.  profit = price_diff * lot_size *  *)
(*           100000 with lot_size = 0.1 is 0.1 USD per point, that is one  *)
(*           money unit per point.                                         *)
(*   limits: percent.                                                      *)
(* The sma_20 and rsi_14 columns are produced by the `ta` library; the     *)
(* model takes their values per bar as inputs.  An observation is the bar  *)
(* the cursor points at (the columns step reads: close, sma_20, rsi_14).   *)
(*                                                                         *)
(* MT5APIClient (src/src/data/api_client.py): initialize and fetch_candles *)
(* as a second state machine over the variable mt5, one action per call    *)
(* into the MetaTrader5 library, the outcome of each call being an input.  *)
(***************************************************************************)
EXTENDS Integers, Sequences, FiniteSets, TLC

\* ------------------------------------------------------------ bounds
\* Largest number of bars left after the indicator warm-up rows are dropped.
MaxBars == 4
\* Steps past the end of the Bar sequence that the model follows.
MaxOverrun == 2
\* Largest number of bars of a rising series.
MaxRise == 7
\* Largest number of rates copy_rates_range returns.
MaxRates == 2

\* ------------------------------------------------- program constants
initial_balance == 10000
UnitsPerUSD == 10
spread == 15
daily_drawdown_limit == 5
overall_drawdown_limit == 10
profit_target == 8
sma_window == 20
rsi_window == 14
rsi_overbought == 70
rsi_oversold == 30
rsi_penalty == 50
trend_bonus == 10
limit_penalty == 1000
target_bonus == 1000
max_retries == 3

BUY == 0
SELL == 1
HOLD == 2
LONG == 1
SHORT == -1
FLAT == 0

\* initial_balance in money units.
InitialBalance == initial_balance * UnitsPerUSD

\* ------------------------------------------------------------ inputs
\* Close prices: 1.00000 and 6% below and above it (one level against an
\* open position breaches the daily limit, two levels the overall limit;
\* two levels in favour reach the profit target).
Prices == {94000, 100000, 106000}
\* The indicator columns of a bar with the given close: the average sits at
\* the middle price, the oscillator is oversold at the low price and
\* overbought at the high one, so that every branch of the reward is taken.
SmaOf(close) == 100000
RsiOf(close) == IF close < 100000 THEN 20 ELSE IF close > 100000 THEN 80 ELSE 50
Bars == {[close |-> c, sma_20 |-> SmaOf(c), rsi_14 |-> RsiOf(c)] : c \in Prices}
\* Action values a caller passes: Buy, Sell, Hold and one outside Discrete(3).
ActionInputs == {BUY, SELL, HOLD, 3}
ValidActions == {BUY, SELL, HOLD}

NoObs == [close |-> 0, sma_20 |-> 0, rsi_14 |-> 0]
NoRet == [op |-> "none", arg |-> 0, raised |-> "none", via |-> 0,
          reward |-> 0, terminated |-> FALSE, truncated |-> FALSE]

VARIABLES
    env,            \* "unbuilt", "live" (constructed) or "aborted" (__init__ raised)
    raw_len,        \* rows _load_data returned
    df,             \* self.df: the Bar sequence (1-based here, 0-based in the code)
    episode_length,
    current_step,
    start_step,
    balance,
    equity,
    position,
    entry_price,
    max_equity,
    done,
    obs,            \* the observation last returned to the caller
    ret,            \* what the last call returned or raised
    mt5             \* the MT5APIClient call in progress, or the last one made

acct == <<balance, equity, position, entry_price, max_equity, done>>
envvars == <<env, raw_len, df, episode_length, current_step, start_step,
             balance, equity, position, entry_price, max_equity, done, obs, ret>>
vars == <<env, raw_len, df, episode_length, current_step, start_step,
          balance, equity, position, entry_price, max_equity, done, obs, ret, mt5>>

\* No MT5APIClient call made yet.
\*   pc       where the call stands: "idle" (none running), "attempt" (about to
\*            call mt5.initialize), "sleep", "init_done" (initialize is
\*            returning), "copy" (about to call copy_rates_range), "finally"
\*   call     the method called: "initialize" or "fetch_candles"
\*   attempt  the loop variable of initialize
\*   log      what initialize has done, in order: "ok", "false", "raise" for
\*            each mt5.initialize call by its outcome, "sleep" for time.sleep
\*   init_result  what initialize returned
\*   path     the way fetch_candles took: "initfail", "data", "nodata", "exception"
\*   candles  the length of the list fetch_candles returned
\*   shutdowns  mt5.shutdown calls made by the call
NoCall == [pc |-> "idle", call |-> "none", attempt |-> 0, log |-> <<>>,
           init_result |-> "none", path |-> "none", candles |-> 0,
           shutdowns |-> 0]

Min(a, b) == IF a <= b THEN a ELSE b
Max(a, b) == IF a >= b THEN a ELSE b

Init ==
    /\ env = "unbuilt"
    /\ raw_len = 0
    /\ df = <<>>
    /\ episode_length = 0
    /\ current_step = 0
    /\ start_step = 0
    /\ balance = 0
    /\ equity = 0
    /\ position = FLAT
    /\ entry_price = 0
    /\ max_equity = 0
    /\ done = FALSE
    /\ obs = NoObs
    /\ ret = NoRet
    /\ mt5 = NoCall

\* ------------------------------------------------------ construction
\* Rows that survive dropna(): the first window-1 rows of each indicator
\* column are NaN.
KeptRows(n) == Max(0, n - Max(sma_window - 1, rsi_window - 1))

\* The rows _load_data may return.
RawLens == 0 .. (Max(sma_window, rsi_window) - 1 + MaxBars)
\* Requested episode lengths: shorter than, equal to and longer than the data.
EpisodeLens == 1 .. (MaxBars + 1)

\* __init__(episode_length = E) over n loaded rows, bars being the rows left
\* after _add_indicators.
Construct(n, E, bars) ==
    /\ env = "unbuilt"
    /\ raw_len' = n
    /\ IF n = 0
       THEN /\ env' = "aborted"
            /\ ret' = [NoRet EXCEPT !.op = "init", !.arg = E, !.raised = "ValueError"]
            /\ UNCHANGED <<df, episode_length, current_step, start_step, acct, obs>>
       ELSE /\ env' = "live"
            /\ df' = bars
            /\ episode_length' = Min(E, Len(bars))
            /\ current_step' = 0
            /\ start_step' = 0
            /\ balance' = InitialBalance
            /\ equity' = InitialBalance
            /\ position' = FLAT
            /\ entry_price' = 0
            /\ max_equity' = InitialBalance
            /\ done' = FALSE
            /\ ret' = [NoRet EXCEPT !.op = "init", !.arg = E]
            /\ UNCHANGED obs

Build ==
    \E n \in RawLens, E \in EpisodeLens :
        \E bars \in [1 .. KeptRows(n) -> Bars] : Construct(n, E, bars)

\* -------------------------------------------------------------- reset
\* _get_obs(): the row at index i (0-based).
GetObs(i) == df[i + 1]

\* The values np.random.randint(0, high) can return; none when high <= 0
\* (numpy raises ValueError).
RandInt(high) == 0 .. (high - 1)

\* Line 92 left out: the position of the previous episode stays.
StalePosition == position
ResetPosition == FLAT
\* Line 91 left out: the equity of the previous episode stays.
StaleEquity == equity
ResetEquity == InitialBalance
ResetMaxEquity == InitialBalance

\* reset(): raises at line 88, before any assignment, when the range of
\* start indices is empty.
Reset ==
    /\ env = "live"
    /\ LET starts == RandInt(Len(df) - episode_length) IN
       IF starts = {}
       THEN /\ ret' = [NoRet EXCEPT !.op = "reset", !.raised = "ValueError"]
            /\ UNCHANGED <<env, raw_len, df, episode_length, current_step,
                           start_step, acct, obs>>
       ELSE \E s \in starts :
            /\ start_step' = s
            /\ current_step' = s
            /\ balance' = InitialBalance
            /\ equity' = ResetEquity
            /\ position' = ResetPosition
            /\ entry_price' = 0
            /\ max_equity' = ResetMaxEquity
            /\ done' = FALSE
            /\ obs' = GetObs(s)
            /\ ret' = [NoRet EXCEPT !.op = "reset", !.via = 98]
            /\ UNCHANGED <<env, raw_len, df, episode_length>>

\* --------------------------------------------------------------- step
\* The early return left out: step never sees the episode as ended.
NeverDone == FALSE
\* Line 115: the guard of the early return.
AlreadyDone == done

\* +1 for a long position, -1 for a short one (lines 126, 155).
Sign(pos) == IF pos = LONG THEN 1 ELSE -1

\* Lines 125-130: equity for the new bar.
EquityAt(bal, pos, entry, price) ==
    IF pos # FLAT THEN bal + (price - entry) * Sign(pos) ELSE bal

\* The difference of line 133 taken the other way round: a rise of equity
\* above max_equity counts as the daily drawdown.
DailyRise(mx, eq) == 100 * (eq - mx) > daily_drawdown_limit * mx
\* Line 133 and 171: (max_equity - equity) / max_equity > limit, max_equity > 0.
DailyBreach(mx, eq) == 100 * (mx - eq) > daily_drawdown_limit * mx
\* Lines 134 and 175.
OverallBreach(eq) ==
    100 * (InitialBalance - eq) > overall_drawdown_limit * InitialBalance
\* `>` for the `>=` of line 182.
TargetStrict(eq) ==
    100 * (eq - InitialBalance) > profit_target * InitialBalance
\* The profit target check left out.
TargetNever(eq) == FALSE
\* Lines 181-182.
TargetReached(eq) ==
    100 * (eq - InitialBalance) >= profit_target * InitialBalance

\* max() left out: max_equity follows equity.
LastEquity(mx, eq) == eq
\* min() for max(): a low-water mark.
LowWater(mx, eq) == IF eq < mx THEN eq ELSE mx
\* Line 135.
NewMaxEquity(mx, eq) == IF eq > mx THEN eq ELSE mx

\* The `position != 1` / `position != -1` tests left out: every Buy or Sell
\* opens a position.
OpensAlways(action, pos) == action = BUY \/ action = SELL
\* Lines 138 and 144: the action opens a position (it is Buy and the position
\* is not Long, or Sell and the position is not Short).
Opens(action, pos) ==
    \/ action = BUY /\ pos # LONG
    \/ action = SELL /\ pos # SHORT

\* Lines 140 and 146 left out: a flip does not realize the open position.
KeepsBalance(action, pos, bal, eq) == bal
\* Line 130 for every position: each step realizes equity into balance.
RealizesAlways(action, pos, bal, eq) == eq
\* Lines 139-140, 145-146: the balance after the action.
BalanceAfter(action, pos, bal, eq) ==
    IF Opens(action, pos) /\ pos # FLAT THEN eq ELSE bal
\* A Buy while Short or a Sell while Long only closes: the position goes
\* Flat and the opposite one is not opened.
ClosesFirst(action, pos) ==
    IF Opens(action, pos)
    THEN (IF pos # FLAT THEN FLAT ELSE IF action = BUY THEN LONG ELSE SHORT)
    ELSE pos
\* Lines 141, 147.
PositionAfter(action, pos) ==
    IF Opens(action, pos) THEN (IF action = BUY THEN LONG ELSE SHORT) ELSE pos
\* Lines 142, 148.
EntryAfter(action, pos, entry, price) ==
    IF Opens(action, pos)
    THEN (IF action = BUY THEN price + spread ELSE price - spread)
    ELSE entry

\* The `position != 0` test of line 154 left out.
RewardWithoutFlatTest(pos, entry, bar) ==
    (bar.close - entry) * Sign(pos)
    + (IF bar.close < bar.sma_20 /\ pos # LONG THEN trend_bonus * UnitsPerUSD ELSE 0)
\* Lines 154-168: the reward before the limit checks.
PositionReward(pos, entry, bar) ==
    IF pos = FLAT THEN 0
    ELSE (bar.close - entry) * Sign(pos)
         - (IF \/ bar.rsi_14 > rsi_overbought /\ pos = LONG
               \/ bar.rsi_14 < rsi_oversold /\ pos = SHORT
            THEN rsi_penalty * UnitsPerUSD ELSE 0)
         + (IF \/ bar.close > bar.sma_20 /\ pos = LONG
               \/ bar.close < bar.sma_20 /\ pos = SHORT
            THEN trend_bonus * UnitsPerUSD ELSE 0)

\* `elif` for the second `if` of line 175: one penalty at most.
LimitRewardOnePenalty(daily, overall, target) ==
    - (IF daily \/ overall THEN limit_penalty * UnitsPerUSD ELSE 0)
    + (IF target THEN target_bonus * UnitsPerUSD ELSE 0)
\* Lines 170-185: what the limit checks add to the reward.
LimitReward(daily, overall, target) ==
    - (IF daily THEN limit_penalty * UnitsPerUSD ELSE 0)
    - (IF overall THEN limit_penalty * UnitsPerUSD ELSE 0)
    + (IF target THEN target_bonus * UnitsPerUSD ELSE 0)

\* `>` for the first `>=` of line 188: the horizon one step late.
HorizonLate(cs) ==
    cs > start_step + episode_length \/ cs >= Len(df) - 1
\* The first test of line 188 left out: only the end of the data ends an episode.
HorizonAtDataEnd(cs) == cs >= Len(df) - 1
\* Line 188.
HorizonReached(cs) ==
    cs >= start_step + episode_length \/ cs >= Len(df) - 1

\* step(action) on an episode that has ended: lines 115-116.
StepDone(action) ==
    /\ env = "live"
    /\ AlreadyDone
    /\ obs' = GetObs(current_step)
    /\ ret' = [op |-> "step", arg |-> action, raised |-> "none", via |-> 116,
               reward |-> 0, terminated |-> TRUE, truncated |-> FALSE]
    /\ UNCHANGED <<env, raw_len, df, episode_length, current_step, start_step, acct>>

\* step(action) otherwise: lines 118-193. df.iloc raises IndexError at line
\* 119, after the cursor has moved, when the cursor is past the last row.
StepLive(action) ==
    /\ env = "live"
    /\ ~AlreadyDone
    /\ current_step < Len(df) + MaxOverrun
    /\ LET cs == current_step + 1 IN
       /\ current_step' = cs
       /\ IF cs >= Len(df)
          THEN /\ ret' = [NoRet EXCEPT !.op = "step", !.arg = action,
                                       !.raised = "IndexError"]
               /\ UNCHANGED <<env, raw_len, df, episode_length, start_step, acct, obs>>
          ELSE LET bar == GetObs(cs)
                   eq == EquityAt(balance, position, entry_price, bar.close)
                   daily == DailyBreach(max_equity, eq)
                   overall == OverallBreach(eq)
                   target == TargetReached(eq)
                   pos == PositionAfter(action, position)
                   entry == EntryAfter(action, position, entry_price, bar.close)
                   truncated == HorizonReached(cs)
                   finished == daily \/ overall \/ target \/ truncated
               IN
               /\ equity' = eq
               /\ max_equity' = NewMaxEquity(max_equity, eq)
               /\ balance' = BalanceAfter(action, position, balance, eq)
               /\ position' = pos
               /\ entry_price' = entry
               /\ done' = finished
               /\ obs' = bar
               /\ ret' = [op |-> "step", arg |-> action, raised |-> "none",
                          via |-> 193,
                          reward |-> PositionReward(pos, entry, bar)
                                     + LimitReward(daily, overall, target),
                          terminated |-> finished, truncated |-> truncated]
               /\ UNCHANGED <<env, raw_len, df, episode_length, start_step>>

\* step(action): lines 113-193.
StepCall(action) == StepDone(action) \/ StepLive(action)

Step == \E action \in ActionInputs : StepCall(action)

Next ==
    \/ Build /\ UNCHANGED mt5
    \/ Reset /\ UNCHANGED mt5
    \/ Step /\ UNCHANGED mt5

Spec == Init /\ [][Next]_vars

\* ------------------------------------------- the profit target, met exactly
\* Closes 0.90000 and 0.98015: a Long opened at 0.90000 + spread stands
\* 0.08000 in profit at 0.98015, which is 800 USD, 8% of initial_balance to
\* the unit (and to the bit in the code's floating point).
TargetPrices == {90000, 98015}
TargetBars ==
    {[close |-> c, sma_20 |-> SmaOf(c), rsi_14 |-> RsiOf(c)] : c \in TargetPrices}

BuildTarget ==
    \E n \in RawLens, E \in EpisodeLens :
        \E bars \in [1 .. KeptRows(n) -> TargetBars] : Construct(n, E, bars)

NextTarget ==
    \/ BuildTarget /\ UNCHANGED mt5
    \/ Reset /\ UNCHANGED mt5
    \/ Step /\ UNCHANGED mt5

SpecTarget == Init /\ [][NextTarget]_vars

\* ------------------------------------------------------- a rising series
\* A close of 1.0000, in points.
OnePrice == 100000
\* L bars whose close starts at 1.0000 and rises by 1.0000 per bar, the
\* average at the close and the oscillator between its thresholds, so that
\* no indicator term enters the reward.
RisingBars(L) ==
    [i \in 1 .. L |-> [close |-> i * OnePrice, sma_20 |-> i * OnePrice, rsi_14 |-> 50]]

BuildRising ==
    \E n \in 0 .. (Max(sma_window, rsi_window) - 1 + MaxRise),
       E \in 1 .. (MaxRise + 1) :
        Construct(n, E, RisingBars(KeptRows(n)))

NextRising ==
    \/ BuildRising /\ UNCHANGED mt5
    \/ Reset /\ UNCHANGED mt5
    \/ Step /\ UNCHANGED mt5

SpecRising == Init /\ [][NextRising]_vars

\* ------------------------------------------------------- MT5APIClient
\* Outcomes of mt5.initialize: true, false, an exception.
InitOutcomes == {"ok", "false", "raise"}
\* Outcomes of copy_rates_range: None, an array of 0..MaxRates rates, or an
\* exception in the try block.
RateOutcomes ==
    [kind : {"None", "raise"}, len : {0}] \cup [kind : {"rates"}, len : 0 .. MaxRates]

\* The guards of lines 40 and 45 left out: a sleep after every failure.
SleepsAlways(attempt) == TRUE
\* Lines 40 and 45: a failed attempt is followed by a sleep.
SleepsAfter(attempt) == attempt < max_retries

\* Line 31: the loop goes on to this attempt.
LoopContinues(attempt) == attempt <= max_retries

\* mt5.shutdown() as the last statement of the try block, not in finally.
ShutsDownOnData(path) == path = "data"
\* Lines 90-91: the finally clause runs on every way out of the try block.
ShutsDown(path) == TRUE

\* initialize() called, directly or as line 51 of fetch_candles.
Call(method) ==
    /\ mt5.pc = "idle"
    /\ mt5' = [NoCall EXCEPT !.pc = "attempt", !.call = method, !.attempt = 1]

CallInitialize == Call("initialize")
CallFetchCandles == Call("fetch_candles")

\* Where initialize goes once attempt number `attempt` is over and the loop
\* variable moves on: the next attempt, or the return False of line 47.
AfterAttempt(m, attempt) ==
    IF LoopContinues(attempt + 1)
    THEN [m EXCEPT !.pc = "attempt", !.attempt = attempt + 1]
    ELSE [m EXCEPT !.pc = "init_done", !.init_result = "False"]

\* Lines 32-46: one mt5.initialize call and what follows it.
Attempt(outcome) ==
    /\ mt5.pc = "attempt"
    /\ LET m == [mt5 EXCEPT !.log = Append(@, outcome)] IN
       mt5' = IF outcome = "ok"
              THEN [m EXCEPT !.pc = "init_done", !.init_result = "True"]
              ELSE IF SleepsAfter(mt5.attempt)
                   THEN [m EXCEPT !.pc = "sleep"]
                   ELSE AfterAttempt(m, mt5.attempt)

TryInitialize == \E outcome \in InitOutcomes : Attempt(outcome)

\* Lines 41 and 46: time.sleep(retry_delay).
Sleep ==
    /\ mt5.pc = "sleep"
    /\ mt5' = AfterAttempt([mt5 EXCEPT !.log = Append(@, "sleep")], mt5.attempt)

\* initialize returns: to its caller, or into fetch_candles (lines 51-54).
InitReturn ==
    /\ mt5.pc = "init_done"
    /\ mt5' = IF mt5.call = "initialize"
              THEN [mt5 EXCEPT !.pc = "idle"]
              ELSE IF mt5.init_result = "True"
                   THEN [mt5 EXCEPT !.pc = "copy"]
                   ELSE [mt5 EXCEPT !.pc = "idle", !.path = "initfail", !.candles = 0]

\* Lines 56-89: the try block, by the outcome of copy_rates_range.
CopyRates(rates) ==
    /\ mt5.pc = "copy"
    /\ mt5' = IF rates.kind = "raise"
              THEN [mt5 EXCEPT !.pc = "finally", !.path = "exception", !.candles = 0]
              ELSE IF rates.kind = "None" \/ rates.len = 0
                   THEN [mt5 EXCEPT !.pc = "finally", !.path = "nodata", !.candles = 0]
                   ELSE [mt5 EXCEPT !.pc = "finally", !.path = "data",
                                    !.candles = rates.len]

TryCopyRates == \E rates \in RateOutcomes : CopyRates(rates)

\* Lines 90-93: the finally clause, then the return.
Finally ==
    /\ mt5.pc = "finally"
    /\ mt5' = [mt5 EXCEPT !.pc = "idle",
                          !.shutdowns = IF ShutsDown(mt5.path) THEN @ + 1 ELSE @]

NextMT5 ==
    \/ CallInitialize /\ UNCHANGED envvars
    \/ CallFetchCandles /\ UNCHANGED envvars
    \/ TryInitialize /\ UNCHANGED envvars
    \/ Sleep /\ UNCHANGED envvars
    \/ InitReturn /\ UNCHANGED envvars
    \/ TryCopyRates /\ UNCHANGED envvars
    \/ Finally /\ UNCHANGED envvars

SpecMT5 == Init /\ [][NextMT5]_vars

\* ------------------------------------------------------------- claims
Live == env = "live"
\* The last call was a step that ran to the return of line 193.
SteppedLive == ret.op = "step" /\ ret.via = 193
\* A step has returned terminated or truncated and no reset has completed since.
EpisodeEnded ==
    done \/ (ret.op = "step" /\ ret.raised = "none" /\ (ret.terminated \/ ret.truncated))

\* C1: once step has returned terminated or truncated, every further step
\* call made before a reset, for any action value, returns reward 0 and
\* terminated, returns the observation returned before, does not raise, and
\* leaves step_cursor, balance, equity, position, entry_price and max_equity
\* as they were.
C1_StepAfterEndIsNoOp ==
    [][\A a \in ActionInputs :
        (EpisodeEnded /\ StepCall(a)) =>
            /\ ret'.raised = "none"
            /\ ret'.reward = 0
            /\ ret'.terminated
            /\ obs' = obs
            /\ UNCHANGED <<current_step, balance, equity, position,
                           entry_price, max_equity>>]_vars
\* A step answered by the early return while a position is open.
C1_Witness ==
    /\ ret.op = "step" /\ ret.via = 116
    /\ ret.reward = 0 /\ ret.terminated
    /\ position # FLAT

\* C2: a step whose action is not Buy, Sell or Hold fails with InvalidAction:
\* it returns no normal result and changes nothing of the episode state.
C2_InvalidActionFails ==
    [][\A a \in ActionInputs \ ValidActions :
        StepCall(a) =>
            /\ ret'.raised = "InvalidAction"
            /\ UNCHANGED <<current_step, acct>>]_vars

\* C3: construction never yields an environment over an empty Bar sequence;
\* when no row is left after the indicator rows are dropped, it aborts.
C3_EmptyBarsAbort ==
    /\ Live => Len(df) > 0
    /\ (env # "unbuilt" /\ KeptRows(raw_len) = 0) =>
           (env = "aborted" /\ ret.raised = "ValueError")

\* C4: over a non-empty Bar sequence of length L and any requested episode
\* length E, episode_length is min(E, L), and every reset completes with
\* 0 <= episode_start_index < L - episode_length and the cursor on it.
C4_ResetCompletes ==
    (Live /\ Len(df) > 0) =>
        /\ ret.op = "init" => episode_length = Min(ret.arg, Len(df))
        /\ ret.op = "reset" =>
               /\ ret.raised = "none"
               /\ start_step \in 0 .. (Len(df) - episode_length - 1)
               /\ current_step = start_step

\* C5: right after a reset has returned, balance, equity and max_equity all
\* equal initial_balance, the position is Flat and the episode is not ended,
\* whatever state the episode before it was left in.
C5_ResetRestoresAccount ==
    (ret.op = "reset" /\ ret.raised = "none") =>
        /\ balance = InitialBalance
        /\ equity = InitialBalance
        /\ max_equity = InitialBalance
        /\ position = FLAT
        /\ ~done
\* A reset that returned, at a start index only a reset can set.
C5_Witness ==
    /\ ret.op = "reset" /\ ret.raised = "none"
    /\ start_step > 0 /\ current_step = start_step
    /\ position = FLAT /\ equity = InitialBalance

\* C6: over a non-empty Bar sequence the cursor stays within [0, L-1] in
\* every state after construction, and every step call on an episode that
\* has not ended moves it by exactly one.
C6_CursorInRange ==
    /\ []((Live /\ Len(df) > 0) => current_step \in 0 .. (Len(df) - 1))
    /\ [][\A a \in ActionInputs :
            (~done /\ StepCall(a)) => current_step' = current_step + 1]_vars

\* C7: the position is always one of Long, Short and Flat, and whenever it
\* is Flat equity equals balance.
C7_PositionAndFlatEquity ==
    Live =>
        /\ position \in {LONG, SHORT, FLAT}
        /\ position = FLAT => equity = balance
\* Flat after a step that ran in full, in an episode a reset started.
C7_Witness ==
    /\ SteppedLive /\ ret.arg = HOLD
    /\ position = FLAT /\ equity = balance
    /\ current_step = start_step + 1 /\ start_step > 0

\* C8: no step call lowers max_equity.
C8_MaxEquityNeverFalls ==
    [][\A a \in ActionInputs : StepCall(a) => max_equity' >= max_equity]_vars
\* Equity has fallen below a high-water mark made earlier in the episode.
C8_Witness ==
    /\ SteppedLive
    /\ max_equity > InitialBalance
    /\ equity < max_equity

\* C9: max_equity >= initial_balance > 0 in every state after construction,
\* so neither divisor of the drawdown and profit ratios is zero.
C9_MaxEquityAtLeastInitial ==
    Live => (max_equity >= InitialBalance /\ InitialBalance > 0)
\* Equity below initial_balance after a step, max_equity still at it.
C9_Witness ==
    /\ SteppedLive
    /\ equity < InitialBalance
    /\ max_equity = InitialBalance

\* C10: on a step of an episode that has not ended, Hold, Buy while Long and
\* Sell while Short leave position and entry_price as they were.
C10_SameDirectionIsNoOp ==
    [][\A a \in ActionInputs :
        (/\ ~done
         /\ StepCall(a)
         /\ \/ a = HOLD
            \/ a = BUY /\ position = LONG
            \/ a = SELL /\ position = SHORT)
        => (position' = position /\ entry_price' = entry_price)]_vars
\* A Buy answered while Long at a bar whose close is not the entry's.
C10_Witness ==
    /\ SteppedLive /\ ret.arg = BUY
    /\ position = LONG
    /\ entry_price # obs.close + spread

\* reset can return: its range of start indices is not empty. Every episode
\* a reset starts is in such an environment, and the state construction
\* leaves is there the state of a reset to start index 0.
CanReset == Live /\ RandInt(Len(df) - episode_length) # {}
\* Steps taken in the episode.
StepsTaken == current_step - start_step

\* C11: on a step of an episode that has not ended, Buy while Short sets
\* balance to the equity recomputed for the new bar and opens Long at
\* close + spread; Sell while Long sets balance to that equity and opens
\* Short at close - spread; Buy or Sell from Flat opens the position at the
\* same entry price and leaves balance as it was.
C11_FlipRealizesThenOpens ==
    [][\A a \in ActionInputs :
        (~done /\ StepCall(a) /\ ret'.raised = "none") =>
            /\ (a = BUY /\ position = SHORT) =>
                   /\ equity' = balance + (entry_price - obs'.close)
                   /\ balance' = equity'
                   /\ position' = LONG
                   /\ entry_price' = obs'.close + spread
            /\ (a = SELL /\ position = LONG) =>
                   /\ equity' = balance + (obs'.close - entry_price)
                   /\ balance' = equity'
                   /\ position' = SHORT
                   /\ entry_price' = obs'.close - spread
            /\ (a = BUY /\ position = FLAT) =>
                   /\ balance' = balance
                   /\ position' = LONG
                   /\ entry_price' = obs'.close + spread
            /\ (a = SELL /\ position = FLAT) =>
                   /\ balance' = balance
                   /\ position' = SHORT
                   /\ entry_price' = obs'.close - spread]_vars
\* A Buy has just closed a Short at a profit or loss and opened a Long.
C11_Witness ==
    /\ SteppedLive /\ ret.arg = BUY
    /\ position = LONG /\ entry_price = obs.close + spread
    /\ balance # InitialBalance /\ balance = equity

\* C12: in an episode a reset started, a step that runs (no limit or target
\* ended the episode before it) returns truncated exactly when it is the
\* episode_length-th step of the episode, and no step runs after that one.
C12_TruncatedAtHorizon ==
    (CanReset /\ SteppedLive) =>
        /\ StepsTaken \in 1 .. episode_length
        /\ ret.truncated <=> (StepsTaken = episode_length)
\* Hold throughout: truncated at the last of at least two steps, short of
\* the end of the data.
C12_Witness ==
    /\ CanReset /\ SteppedLive /\ ret.truncated
    /\ position = FLAT /\ ret.arg = HOLD
    /\ episode_length >= 2
    /\ StepsTaken = episode_length
    /\ current_step < Len(df) - 1

\* A drawdown limit or the profit target fired on the step just run: equity
\* is the step's, and max_equity differs from the one the step compared
\* with only when equity rose above it, where neither reading is a breach.
LimitFired ==
    \/ 100 * (max_equity - equity) > daily_drawdown_limit * max_equity
    \/ 100 * (InitialBalance - equity) > overall_drawdown_limit * InitialBalance
    \/ 100 * (equity - InitialBalance) >= profit_target * InitialBalance

\* C13: a step on which only the horizon check fires returns truncated and
\* not terminated.
C13_TruncatedIsNotTerminated ==
    (SteppedLive /\ ret.truncated /\ ~LimitFired) => ~ret.terminated

\* C14: every step that ends with the position Flat returns reward 0.
C14_FlatRewardIsZero ==
    (Live /\ ret.op = "step" /\ ret.raised = "none" /\ position = FLAT) =>
        ret.reward = 0
\* Flat after a step over a bar whose close is off the average and whose
\* oscillator is past a threshold.
C14_Witness ==
    /\ SteppedLive /\ position = FLAT /\ ret.reward = 0
    /\ obs.close # obs.sma_20
    /\ obs.rsi_14 < rsi_oversold

\* C15: on a step of an episode that has not ended, if the daily drawdown,
\* taken against max_equity as it was before the step, or the overall
\* drawdown exceeds its limit, the step returns terminated, and its reward
\* is the position reward less one fixed penalty for each limit exceeded.
C15_DrawdownEndsAndPenalizes ==
    [][\A a \in ActionInputs :
        (~done /\ StepCall(a) /\ ret'.raised = "none") =>
            LET daily == 100 * (max_equity - equity') > daily_drawdown_limit * max_equity
                overall == 100 * (InitialBalance - equity')
                               > overall_drawdown_limit * InitialBalance
                target == 100 * (equity' - InitialBalance)
                               >= profit_target * InitialBalance
                breaches == (IF daily THEN 1 ELSE 0) + (IF overall THEN 1 ELSE 0)
            IN  (daily \/ overall) =>
                    /\ ret'.terminated
                    /\ done'
                    /\ ret'.reward =
                           PositionReward(position', entry_price', obs')
                           - breaches * limit_penalty * UnitsPerUSD
                           + (IF target THEN target_bonus * UnitsPerUSD ELSE 0)]_vars
\* Both limits exceeded on one step: two penalties in the reward.
C15_Witness ==
    /\ SteppedLive /\ ret.terminated
    /\ 100 * (max_equity - equity) > daily_drawdown_limit * max_equity
    /\ 100 * (InitialBalance - equity) > overall_drawdown_limit * InitialBalance
    /\ ret.reward = PositionReward(position, entry_price, obs)
                    - 2 * limit_penalty * UnitsPerUSD

\* C20: in an episode a reset started, whatever the actions and the prices,
\* an episode still running has taken fewer than episode_length steps: the
\* episode_length-th step at the latest returns terminated or truncated.
C20_EndsWithinHorizon ==
    CanReset =>
        /\ StepsTaken \in 0 .. episode_length
        /\ ~done => StepsTaken < episode_length
        /\ (SteppedLive /\ StepsTaken = episode_length) =>
               (ret.terminated \/ ret.truncated)
\* An episode from a start index above 0 that ran its full length with a
\* position open.
C20_Witness ==
    /\ CanReset /\ SteppedLive /\ done
    /\ start_step > 0 /\ episode_length >= 2
    /\ StepsTaken = episode_length
    /\ position # FLAT

\* C16: on a step of an episode that has not ended, if the profit ratio
\* (equity - initial_balance) / initial_balance is at or above the profit
\* target, equality included, the step returns terminated and the fixed
\* bonus is added to its reward.
C16_TargetEndsAndRewards ==
    (SteppedLive
     /\ 100 * (equity - InitialBalance) >= profit_target * InitialBalance) =>
        /\ ret.terminated
        /\ done
        /\ ret.reward =
               PositionReward(position, entry_price, obs)
               + target_bonus * UnitsPerUSD
               - (IF 100 * (max_equity - equity) > daily_drawdown_limit * max_equity
                  THEN limit_penalty * UnitsPerUSD ELSE 0)
               - (IF 100 * (InitialBalance - equity)
                         > overall_drawdown_limit * InitialBalance
                  THEN limit_penalty * UnitsPerUSD ELSE 0)
\* The ratio equals the target: the step ended the episode with the bonus.
C16_Witness ==
    /\ SteppedLive /\ ret.terminated /\ ~ret.truncated
    /\ 100 * (equity - InitialBalance) = profit_target * InitialBalance
    /\ ret.reward = PositionReward(position, entry_price, obs)
                    + target_bonus * UnitsPerUSD

\* In an episode a reset started, of at least 6 steps, a Buy on the first
\* step opened the Long that is still open: the entry price is that of the
\* bar after the start index, and closes differ from bar to bar.
BoughtAtFirstStep ==
    /\ CanReset
    /\ episode_length >= 6
    /\ StepsTaken >= 1
    /\ position = LONG
    /\ entry_price = GetObs(start_step + 1).close + spread

\* C17 (as claimed): on a series rising by 1 unit per bar from 1.0000, after
\* a Buy on the first step, each of the next 5 Hold steps makes equity
\* strictly larger and returns a positive reward. Stated for the Holds that
\* follow a step that ran in full, which are among the first 5.
C17_EveryHoldGains ==
    [][(BoughtAtFirstStep /\ SteppedLive /\ StepsTaken <= 5 /\ StepCall(HOLD)) =>
          (equity' > equity /\ ret'.reward > 0)]_vars

\* C17 (amended): the first Hold after the Buy makes equity strictly larger,
\* returns a positive reward and ends the episode (one unit of price is
\* 10000 USD of profit, past the profit target); every Hold after it
\* returns reward 0 and leaves equity as it was.
C17_FirstHoldGainsAndEnds ==
    [][(BoughtAtFirstStep /\ StepCall(HOLD)) =>
          IF ~done
          THEN /\ StepsTaken = 1
               /\ equity' > equity
               /\ ret'.reward > 0
               /\ ret'.terminated /\ ~ret'.truncated
          ELSE /\ equity' = equity
               /\ ret'.reward = 0]_vars
\* A Hold answered after the first Hold ended the episode.
C17_Witness ==
    /\ BoughtAtFirstStep
    /\ ret.op = "step" /\ ret.via = 116 /\ ret.arg = HOLD
    /\ StepsTaken = 2
    /\ equity > InitialBalance

\* The mt5.initialize calls in the log, and the places of the sleeps.
Attempts(log) == {i \in 1 .. Len(log) : log[i] # "sleep"}
Sleeps(log) == {i \in 1 .. Len(log) : log[i] = "sleep"}
\* initialize has returned (its result is set).
InitReturned == mt5.init_result # "none"

\* C18: initialize makes at most max_retries attempts; it returns True at
\* the first attempt that succeeds, making none after it; it returns False
\* exactly when max_retries attempts have all failed, by a false result or
\* by an exception; it sleeps between attempts only, never after the last.
C18_InitializeRetries ==
    /\ Cardinality(Attempts(mt5.log)) <= max_retries
    /\ \A i \in Sleeps(mt5.log) : i > 1 /\ mt5.log[i - 1] \in {"false", "raise"}
    /\ \A i \in 1 .. Len(mt5.log) : mt5.log[i] = "ok" => i = Len(mt5.log)
    /\ InitReturned =>
           /\ mt5.log # <<>>
           /\ mt5.log[Len(mt5.log)] # "sleep"
           /\ Cardinality(Sleeps(mt5.log)) = Cardinality(Attempts(mt5.log)) - 1
           /\ mt5.init_result = "True" <=> mt5.log[Len(mt5.log)] = "ok"
           /\ mt5.init_result = "False" <=>
                  /\ Cardinality(Attempts(mt5.log)) = max_retries
                  /\ \A i \in Attempts(mt5.log) : mt5.log[i] \in {"false", "raise"}
\* False returned after a false result, an exception and a false result,
\* with the two sleeps between them.
C18_Witness ==
    /\ mt5.call = "initialize" /\ mt5.pc = "idle"
    /\ mt5.init_result = "False"
    /\ mt5.log = <<"false", "sleep", "raise", "sleep", "false">>

\* fetch_candles has returned.
FetchReturned == mt5.call = "fetch_candles" /\ mt5.pc = "idle"

\* C19: a fetch_candles call in which initialize succeeded makes exactly one
\* mt5.shutdown before it returns, with data, without data and after an
\* exception alike; one in which initialize failed returns an empty list
\* and makes no shutdown.
C19_ShutdownOncePerFetch ==
    /\ mt5.shutdowns <= 1
    /\ FetchReturned =>
           IF mt5.init_result = "True"
           THEN /\ mt5.shutdowns = 1
                /\ mt5.path \in {"data", "nodata", "exception"}
           ELSE /\ mt5.shutdowns = 0
                /\ mt5.path = "initfail"
                /\ mt5.candles = 0
\* Returned by the exception path, after a retry, with the connection shut.
C19_Witness ==
    /\ FetchReturned
    /\ mt5.path = "exception"
    /\ mt5.log = <<"raise", "sleep", "ok">>
    /\ mt5.shutdowns = 1

\* What the limit checks of lines 170-185 added to the reward of the step
\* just run.
LimitPart == ret.reward - PositionReward(position, entry_price, obs)
\* The drawdown and profit conditions of the step just run, read from the
\* state it left: equity is the step's, and max_equity is the one the step
\* compared with unless equity rose above it, where the daily drawdown is
\* negative on either reading.
DailyExceeded == 100 * (max_equity - equity) > daily_drawdown_limit * max_equity
OverallExceeded ==
    100 * (InitialBalance - equity) > overall_drawdown_limit * InitialBalance
TargetMet == 100 * (equity - InitialBalance) >= profit_target * InitialBalance

\* C21: with the default limits no step meets both a drawdown condition and
\* the profit-target condition, and no step's reward carries both a drawdown
\* penalty and the bonus: a step that meets the target adds the bonus alone,
\* a step that exceeds a drawdown limit subtracts penalties alone.
C21_PenaltyAndBonusExclude ==
    SteppedLive =>
        /\ ~((DailyExceeded \/ OverallExceeded) /\ TargetMet)
        /\ TargetMet => LimitPart = target_bonus * UnitsPerUSD
        /\ (DailyExceeded \/ OverallExceeded) =>
               LimitPart = - ((IF DailyExceeded THEN 1 ELSE 0)
                              + (IF OverallExceeded THEN 1 ELSE 0))
                             * limit_penalty * UnitsPerUSD
        /\ ~(DailyExceeded \/ OverallExceeded \/ TargetMet) => LimitPart = 0
\* In an episode a reset can start, equity fell more than the daily limit
\* below a high-water mark above initial_balance, while still short of the
\* overall limit: one penalty and no bonus.
C21_Witness ==
    /\ CanReset /\ SteppedLive
    /\ max_equity > InitialBalance
    /\ DailyExceeded /\ ~OverallExceeded
    /\ LimitPart = - limit_penalty * UnitsPerUSD

\* C22: a position a Buy or Sell has opened stays open until the next reset:
\* a step that runs with Buy leaves the position Long and one with Sell
\* leaves it Short, and no call but a reset that returns takes the position
\* from Long or Short to Flat.
C22_OpenUntilReset ==
    /\ [](SteppedLive =>
            /\ ret.arg = BUY => position = LONG
            /\ ret.arg = SELL => position = SHORT)
    /\ [][(position # FLAT /\ position' = FLAT) =>
            (Reset /\ ret'.op = "reset" /\ ret'.raised = "none")]_vars
\* A Sell has just closed a Long opened earlier in the episode: the position
\* is Short, not Flat.
C22_Witness ==
    /\ SteppedLive /\ ret.arg = SELL
    /\ StepsTaken >= 2
    /\ position = SHORT /\ entry_price = obs.close - spread
    /\ balance # InitialBalance /\ balance = equity

\* The action flips the open position: Buy while Short or Sell while Long.
Flips(a, pos) == (a = BUY /\ pos = SHORT) \/ (a = SELL /\ pos = LONG)

\* C23: after construction balance changes only on a step that runs and
\* whose action flips the open position, where it becomes the step's equity,
\* and on a reset; Hold, a Buy while Long, a Sell while Short, an opening
\* from Flat and a step that only ends the episode leave it as it was, so an
\* episode ends with its open profit or loss outside balance.
C23_BalanceChangesOnFlipOnly ==
    [][(env = "live" /\ balance' # balance) =>
          \/ /\ ~done
             /\ ret'.op = "step" /\ ret'.via = 193
             /\ Flips(ret'.arg, position)
             /\ balance' = equity'
          \/ /\ ret'.op = "reset" /\ ret'.raised = "none"
             /\ balance' = InitialBalance]_vars
\* An episode ended by a Hold with a position open at a profit or loss:
\* balance is still what the flip before it realized, equity is not.
C23_Witness ==
    /\ SteppedLive /\ done /\ ret.arg = HOLD
    /\ position # FLAT
    /\ balance # InitialBalance
    /\ equity # balance
====
